---- MODULE Spec2Model ----
(* Model of endpoint-sec/src/event/event_exec.rs: the EventExec wrapper over  *)
(* the native es_event_exec_t record, its version-gated accessors, and the    *)
(* ExecArgs / ExecEnvs / ExecFds iterators generated by make_exec_iterator!.  *)
EXTENDS Integers, Sequences, FiniteSets, TLC

(* ------------------------------------------------------------------------ *)
(* Bounds of the model                                                        *)
(* ------------------------------------------------------------------------ *)

\* Width in bits of the model's u32 (the source uses 32); usize is twice as wide.
W == 2
\* Longest argument list of a native record.
MaxLen == 3
\* Largest n passed to nth(n); larger than U32_MAX so that the clamp happens.
MaxN == 5
\* Highest message version.
MaxVersion == 7

U32_MAX == 2^W - 1
USIZE_MAX == 2^(2*W) - 1

u32 == 0..U32_MAX

(* ------------------------------------------------------------------------ *)
(* Option values                                                              *)
(* ------------------------------------------------------------------------ *)

None == [some |-> FALSE]
Some(x) == [some |-> TRUE, val |-> x]

(* ------------------------------------------------------------------------ *)
(* The native record (es_event_exec_t) and the native functions               *)
(* ------------------------------------------------------------------------ *)

NULL == "NULL"
\* Content of a field the message version does not carry: memory past the
\* record, never a meaningful value.
Garbage == "GARBAGE"

\* libproc's type code of a pipe descriptor.
PROX_FDTYPE_PIPE == 6

\* es_string_token_t: a length and a pointer to the bytes.
StringToken(s) == [length |-> Len(s), data |-> s]

min(a, b) == IF a < b THEN a ELSE b

\* The strings of an argument list, distinct so that an element names its index.
ArgV == <<"/bin/ls", "-la", "/tmp", "-R", "--", "x", "y", "z">>
Strs == {ArgV[i] : i \in 1..Len(ArgV)} \cup {"PATH=/usr/bin"}

\* The argument lists a record can carry: at most U32_MAX elements (the count
\* is a u32), and one list that repeats an element.
ArgLists ==
    {SubSeq(ArgV, 1, k) : k \in 0..min(min(MaxLen, U32_MAX), Len(ArgV))} \cup {<<"-la", "-la">>}
PipeFd == [fd |-> 3, fdtype |-> PROX_FDTYPE_PIPE, pipe_id |-> 9]
VnodeFd == [fd |-> 0, fdtype |-> 1, pipe_id |-> 0]
\* The environment and descriptor lists a record can carry.
EnvFdLists ==
    { <<<<>>, <<PipeFd>>>>,
      <<<<"PATH=/usr/bin">>, <<>>>>,
      <<<<"PATH=/usr/bin">>, <<VnodeFd, PipeFd>>>> }

\* The version-dependent fields: present from their version on, garbage before.
FieldValues(version, since, values, garbage) == IF version >= since THEN values ELSE {garbage}

\* The records the native layer can deliver with a given version.
es_event_exec_t(version) ==
    { [target |-> "pid 42", args |-> a, envs |-> ef[1], fds |-> ef[2],
       script |-> s, cwd |-> c, last_fd |-> l,
       image_cputype |-> ct, image_cpusubtype |-> cs, dyld_exec_path |-> d] :
        a \in ArgLists, ef \in EnvFdLists,
        s \in FieldValues(version, 2, {NULL, "/tmp/foo.sh"}, Garbage),
        c \in FieldValues(version, 3, {"/home"}, Garbage),
        l \in FieldValues(version, 4, {5}, -1),
        ct \in FieldValues(version, 6, {7}, -1),
        cs \in FieldValues(version, 6, {3}, -1),
        d \in FieldValues(version, 7, {StringToken("/bin/sh")}, StringToken(Garbage)) }

Kinds == {"arg", "env", "fd"}

\* The native array behind each counted field.
Array(raw, kind) ==
    CASE kind = "arg" -> raw.args
      [] kind = "env" -> raw.envs
      [] kind = "fd" -> raw.fds

\* es_exec_arg_count / es_exec_env_count / es_exec_fd_count
es_exec_count(raw, kind) == Len(Array(raw, kind))

\* The token of one array element.
Token(kind, x) == IF kind = "fd" THEN [ptr |-> x] ELSE StringToken(x)

AnyTokens(kind) ==
    IF kind = "fd" THEN {[ptr |-> NULL], [ptr |-> PipeFd], [ptr |-> VnodeFd]}
    ELSE {StringToken(s) : s \in {"-la", Garbage}}

\* es_exec_arg / es_exec_env / es_exec_fd: the tokens a call can return. Out of
\* bounds the call is undefined behaviour: any token at all.
es_exec_element(raw, kind, index) ==
    IF index < es_exec_count(raw, kind)
    THEN {Token(kind, Array(raw, kind)[index + 1])}
    ELSE AnyTokens(kind)

\* as_os_str: the bytes the token points to.
as_os_str(x) == x.data

\* make_fd: the Fd wrapper around the es_fd_t the token points to.
make_fd(fd) == [raw |-> fd.ptr]

raw_to_wrapped(kind, token) == IF kind = "fd" THEN make_fd(token) ELSE as_os_str(token)

(* ------------------------------------------------------------------------ *)
(* u32 arithmetic                                                             *)
(* ------------------------------------------------------------------------ *)

saturating_add(a, b) == IF a + b > U32_MAX THEN U32_MAX ELSE a + b
saturating_sub(a, b) == IF a < b THEN 0 ELSE a - b
\* `as u32` on a usize: the low bits.
as_u32(n) == n % (U32_MAX + 1)

(* ------------------------------------------------------------------------ *)
(* The iterators of make_exec_iterator!                                       *)
(* An iterator is [kind, count, current]; its `ev` is the one record.         *)
(* next, nth and last give the iterator after the call and `fetch`, the       *)
(* indices passed to the native element function during the call (the call    *)
(* returns Some(view of the token fetched), or None when nothing is fetched). *)
(* ------------------------------------------------------------------------ *)

\* new that starts the cursor on the second element.
new_resumed(raw, kind) == [kind |-> kind, count |-> es_exec_count(raw, kind), current |-> 1]

\* $name::new: the count is snapshotted, the cursor starts at 0
new(raw, kind) == [kind |-> kind, count |-> es_exec_count(raw, kind), current |-> 0]

\* next that advances the cursor by two.
next_by_two(self) ==
    IF self.current < self.count
    THEN [self |-> [self EXCEPT !.current = saturating_add(self.current, 2)],
          fetch |-> <<self.current>>]
    ELSE [self |-> self, fetch |-> <<>>]

\* next with an inclusive bound check.
next_inclusive(self) ==
    IF self.current <= self.count
    THEN [self |-> [self EXCEPT !.current = saturating_add(self.current, 1)],
          fetch |-> <<self.current>>]
    ELSE [self |-> self, fetch |-> <<>>]

next(self) ==
    IF self.current < self.count
    THEN [self |-> [self EXCEPT !.current = saturating_add(self.current, 1)],
          fetch |-> <<self.current>>]
    ELSE [self |-> self, fetch |-> <<>>]

\* nth that positions the cursor one element too far.
nth_off_by_one(self, n) == next([self EXCEPT !.current = as_u32(min(n + 1, U32_MAX))])

\* nth that truncates n to 32 bits instead of clamping it.
nth_truncating(self, n) == next([self EXCEPT !.current = as_u32(n)])

\* nth as Iterator's default method: next() called n + 1 times, every skipped
\* element fetched.
nth_by_next(self, n) ==
    LET k == min(n + 1, saturating_sub(self.count, self.current))
    IN [self |-> [self EXCEPT !.current = self.current + k],
        fetch |-> [i \in 1..k |-> self.current + i - 1]]

nth(self, n) == next([self EXCEPT !.current = as_u32(min(n, U32_MAX))])

\* last that positions the cursor at count.
last_at_count(self) == next([self EXCEPT !.current = self.count])

last(self) == next([self EXCEPT !.current = saturating_sub(self.count, 1)])

\* len with a wrapping subtraction.
len_wrapping(self) == (self.count - self.current) % (U32_MAX + 1)

len(self) == saturating_sub(self.count, self.current)

size_hint(self) == <<len(self), Some(len(self))>>

count(self) == [self |-> [self EXCEPT !.current = self.count], ret |-> len(self)]

\* Iterator::collect: next() until it returns None.
RECURSIVE collect(_)
collect(self) ==
    LET r == next(self)
    IN IF r.fetch = <<>> THEN <<>> ELSE r.fetch \o collect(r.self)

(* ------------------------------------------------------------------------ *)
(* EventExec: [raw, version]. A scalar accessor gives `reads`, the fields of  *)
(* the native record it read, and `res`, what it returned.                    *)
(* ------------------------------------------------------------------------ *)

Absent == [reads |-> {}, res |-> None]

dyld_exec_path(ev) ==
    IF ev.version >= 7
    THEN [reads |-> {"dyld_exec_path"}, res |-> Some(as_os_str(ev.raw.dyld_exec_path))]
    ELSE Absent

script(ev) ==
    IF ev.version >= 2
    THEN LET script_ptr == ev.raw.script
         IN [reads |-> {"script"},
             res |-> IF script_ptr = NULL THEN None ELSE Some([File |-> script_ptr])]
    ELSE Absent

\* cwd gated one version early.
cwd_early(ev) ==
    IF ev.version >= 2
    THEN [reads |-> {"cwd"}, res |-> Some([File |-> ev.raw.cwd])]
    ELSE [reads |-> {}, res |-> None]

cwd(ev) ==
    IF ev.version >= 3
    THEN [reads |-> {"cwd"}, res |-> Some([File |-> ev.raw.cwd])]
    ELSE Absent

\* last_fd gated one version late.
last_fd_late(ev) ==
    IF ev.version >= 5
    THEN [reads |-> {"last_fd"}, res |-> Some(ev.raw.last_fd)]
    ELSE [reads |-> {}, res |-> None]

last_fd(ev) ==
    IF ev.version >= 4
    THEN [reads |-> {"last_fd"}, res |-> Some(ev.raw.last_fd)]
    ELSE Absent

image_cputype(ev) ==
    IF ev.version >= 6
    THEN [reads |-> {"image_cputype"}, res |-> Some(ev.raw.image_cputype)]
    ELSE Absent

image_cpusubtype(ev) ==
    IF ev.version >= 6
    THEN [reads |-> {"image_cpusubtype"}, res |-> Some(ev.raw.image_cpusubtype)]
    ELSE Absent

\* The gated accessors by name, with the version that introduces each field.
Gated == {"dyld_exec_path", "script", "cwd", "last_fd", "image_cputype", "image_cpusubtype"}

Accessor(name, ev) ==
    CASE name = "dyld_exec_path" -> dyld_exec_path(ev)
      [] name = "script" -> script(ev)
      [] name = "cwd" -> cwd(ev)
      [] name = "last_fd" -> last_fd(ev)
      [] name = "image_cputype" -> image_cputype(ev)
      [] name = "image_cpusubtype" -> image_cpusubtype(ev)

\* arg_count / env_count / fd_count
element_count(ev, kind) == es_exec_count(ev.raw, kind)

\* args() / envs() / fds()
iter(ev, kind) == new(ev.raw, kind)

\* An out-of-range index clamped to the last element.
element_clamped(ev, kind, index) ==
    nth(iter(ev, kind), min(index, saturating_sub(element_count(ev, kind), 1)))

\* arg(index) / env(index) / fd(index), index a u32 widened to usize
element(ev, kind, index) == nth(iter(ev, kind), index)

\* all_args
all_args(ev) == collect(iter(ev, "arg"))

\* target: the Process wrapper around the target of the record.
target(ev) == [Process |-> ev.raw.target, version |-> ev.version]

\* What all_args() returns: the views of the tokens its next() calls fetch.
all_args_views(ev) ==
    LET fetch == all_args(ev)
    IN [i \in 1..Len(fetch) |->
          raw_to_wrapped("arg", CHOOSE t \in es_exec_element(ev.raw, "arg", fetch[i]) : TRUE)]

\* The functions impl_debug_eq_hash_with_functions! is given for EventExec,
\* with what each returns.
eq_functions(ev) ==
    [cwd |-> cwd(ev).res,
     all_args |-> all_args_views(ev),
     script |-> script(ev).res,
     target |-> target(ev),
     last_fd |-> last_fd(ev).res,
     arg_count |-> element_count(ev, "arg"),
     env_count |-> element_count(ev, "env"),
     fd_count |-> element_count(ev, "fd"),
     image_cputype |-> image_cputype(ev).res,
     image_cpusubtype |-> image_cpusubtype(ev).res]

\* PartialEq::eq as the macro derives it: the versions agree and so does what
\* every listed function returns.
PartialEq_eq(a, b) == a.version = b.version /\ eq_functions(a) = eq_functions(b)

\* Hash::hash as the macro derives it: what is fed to the hasher, the version
\* and then what every listed function returns.
Hash_hash(a) == <<a.version, eq_functions(a)>>

\* The same logical data delivered in another buffer: the fields the version
\* does not carry hold other bytes.
Relaid(raw, version) ==
    [raw EXCEPT
       !.script = IF version >= 2 THEN @ ELSE "GARBAGE2",
       !.cwd = IF version >= 3 THEN @ ELSE "GARBAGE2",
       !.last_fd = IF version >= 4 THEN @ ELSE -2,
       !.image_cputype = IF version >= 6 THEN @ ELSE -2,
       !.image_cpusubtype = IF version >= 6 THEN @ ELSE -2,
       !.dyld_exec_path = IF version >= 7 THEN @ ELSE StringToken("GARBAGE2")]

\* Records that differ from `raw` in one field only, the counts kept.
Variants(raw, version) ==
    { [raw EXCEPT !.envs = [i \in DOMAIN @ |-> "HOME=/root"]],
      [raw EXCEPT !.fds = [i \in DOMAIN @ |-> [fd |-> 4, fdtype |-> 1, pipe_id |-> 0]]],
      [raw EXCEPT !.args = [i \in DOMAIN @ |-> "-R"]],
      [raw EXCEPT !.dyld_exec_path = IF version >= 7 THEN StringToken("/bin/zsh") ELSE @] }

\* The records an EventExec is compared with: the same data in another
\* buffer, the one-field variants, the records of its version with the same
\* arguments, and the records of any version with the same lists.
OtherEvents(ev) ==
    {[raw |-> r, version |-> ev.version] :
        r \in Variants(ev.raw, ev.version) \cup {Relaid(ev.raw, ev.version)}
                 \cup {x \in es_event_exec_t(ev.version) : x.args = ev.raw.args}}
    \cup UNION {{[raw |-> r, version |-> v] :
                   r \in {x \in es_event_exec_t(v) :
                            /\ x.args = ev.raw.args
                            /\ x.envs = ev.raw.envs
                            /\ x.fds = ev.raw.fds}} : v \in 1..MaxVersion}

(* ------------------------------------------------------------------------ *)
(* Fd: the wrapper [raw] around one es_fd_t                                   *)
(* ------------------------------------------------------------------------ *)

\* es_fd_t::pipe: the pipe member of the union, for a pipe descriptor only.
es_fd_t_pipe(raw) ==
    IF raw.fdtype = PROX_FDTYPE_PIPE THEN Some([pipe_id |-> raw.pipe_id]) ELSE None

Fd_fd(self) == self.raw.fd

Fd_fdtype(self) == self.raw.fdtype

\* pipe_id that reads the union whatever the descriptor type.
Fd_pipe_id_unchecked(self) == Some(self.raw.pipe_id)

Fd_pipe_id(self) ==
    LET pipe == es_fd_t_pipe(self.raw)
    IN IF pipe.some THEN Some(pipe.val.pipe_id) ELSE None

FdAccessors == {"Fd::fd", "Fd::fdtype", "Fd::pipe_id"}

FdAccessor(name, self) ==
    CASE name = "Fd::fd" -> Fd_fd(self)
      [] name = "Fd::fdtype" -> Fd_fdtype(self)
      [] name = "Fd::pipe_id" -> Fd_pipe_id(self)

(* ------------------------------------------------------------------------ *)
(* State                                                                      *)
(* ------------------------------------------------------------------------ *)

VARIABLES
    ev,    \* the EventExec: [raw, version], immutable after construction
    it,    \* the iterator the caller holds, or NoIter
    ret,   \* the last call: [op, n, pre, fetch, reads, res]
    hist,  \* history of the iterator held: [onlyNext, yielded, done, consumed]:
           \* whether only next() was called on it, what those calls yielded,
           \* whether a next() has returned None, and how many of its elements
           \* the calls made on it have yielded or skipped (at most count)
    other  \* a second iterator the caller holds over the same record, or NoIter

vars == <<ev, it, ret, hist, other>>

NoIter == [kind |-> "none", count |-> 0, current |-> 0]

\* No next() has been called on the iterator yet.
Fresh == [onlyNext |-> TRUE, yielded |-> <<>>, done |-> FALSE, consumed |-> 0]

Call(op, n, pre, fetch, reads, res) ==
    [op |-> op, n |-> n, pre |-> pre, fetch |-> fetch, reads |-> reads, res |-> res]

\* What a call that passed `fetch` to the native element function returns.
Returned(kind, fetch) ==
    IF fetch = <<>> THEN {None}
    ELSE {Some(raw_to_wrapped(kind, t)) : t \in es_exec_element(ev.raw, kind, fetch[1])}

\* The views a collect() that passed `fetch` to the native element function gathers.
RECURSIVE Collected(_, _)
Collected(kind, fetch) ==
    IF fetch = <<>> THEN {<<>>}
    ELSE {<<raw_to_wrapped(kind, t)>> \o rest :
            t \in es_exec_element(ev.raw, kind, fetch[1]),
            rest \in Collected(kind, Tail(fetch))}

Init ==
    /\ \E version \in 1..MaxVersion : \E raw \in es_event_exec_t(version) :
          ev = [raw |-> raw, version |-> version]
    /\ it = NoIter
    /\ ret = Call("new", 0, NoIter, <<>>, {}, None)
    /\ hist = Fresh
    /\ other = NoIter

\* args() / envs() / fds(): the caller takes a fresh iterator.
CallIter ==
    \E kind \in Kinds :
        /\ it' = iter(ev, kind)
        /\ ret' = Call("iter", 0, NoIter, <<>>, {}, None)
        /\ hist' = Fresh
        /\ UNCHANGED <<ev, other>>

CallNext ==
    /\ it # NoIter
    /\ LET r == next(it)
       IN \E res \in Returned(it.kind, r.fetch) :
            /\ it' = r.self
            /\ ret' = Call("next", 0, it, r.fetch, {}, res)
            /\ hist' = [hist EXCEPT
                          !.yielded = IF hist.onlyNext /\ res.some THEN Append(@, res.val) ELSE @,
                          !.done = @ \/ ~res.some,
                          !.consumed = min(it.count, @ + IF res.some THEN 1 ELSE 0)]
    /\ UNCHANGED <<ev, other>>

CallNth ==
    /\ it # NoIter
    /\ \E n \in 0..min(MaxN, USIZE_MAX) :
         LET r == nth(it, n)
         IN \E res \in Returned(it.kind, r.fetch) :
              /\ it' = r.self
              /\ ret' = Call("nth", n, it, r.fetch, {}, res)
              /\ hist' = [hist EXCEPT
                            !.onlyNext = FALSE,
                            !.yielded = <<>>,
                            !.consumed = min(it.count, @ + n + IF res.some THEN 1 ELSE 0)]
    /\ UNCHANGED <<ev, other>>

\* last(self) consumes the iterator.
CallLast ==
    /\ it # NoIter
    /\ LET r == last(it)
       IN \E res \in Returned(it.kind, r.fetch) :
            /\ it' = NoIter
            /\ ret' = Call("last", 0, it, r.fetch, {}, res)
            /\ hist' = Fresh
    /\ UNCHANGED <<ev, other>>

\* count(self) consumes the iterator.
CallCount ==
    /\ it # NoIter
    /\ it' = NoIter
    /\ ret' = Call("count", 0, it, <<>>, {}, count(it).ret)
    /\ hist' = Fresh
    /\ UNCHANGED <<ev, other>>

CallLen ==
    /\ it # NoIter
    /\ ret' = Call("len", 0, it, <<>>, {}, len(it))
    /\ UNCHANGED <<ev, it, hist, other>>

CallSizeHint ==
    /\ it # NoIter
    /\ ret' = Call("size_hint", 0, it, <<>>, {}, size_hint(it))
    /\ UNCHANGED <<ev, it, hist, other>>

\* args() / envs() / fds() again: the caller takes a second iterator.
CallIterOther ==
    \E kind \in Kinds :
        /\ other' = iter(ev, kind)
        /\ ret' = Call("other.iter", 0, NoIter, <<>>, {}, None)
        /\ UNCHANGED <<ev, it, hist>>

CallNextOther ==
    /\ other # NoIter
    /\ LET r == next(other)
       IN \E res \in Returned(other.kind, r.fetch) :
            /\ other' = r.self
            /\ ret' = Call("other.next", 0, other, r.fetch, {}, res)
    /\ UNCHANGED <<ev, it, hist>>

CallNthOther ==
    /\ other # NoIter
    /\ \E n \in 0..min(MaxN, USIZE_MAX) :
         LET r == nth(other, n)
         IN \E res \in Returned(other.kind, r.fetch) :
              /\ other' = r.self
              /\ ret' = Call("other.nth", n, other, r.fetch, {}, res)
    /\ UNCHANGED <<ev, it, hist>>

CallLastOther ==
    /\ other # NoIter
    /\ LET r == last(other)
       IN \E res \in Returned(other.kind, r.fetch) :
            /\ other' = NoIter
            /\ ret' = Call("other.last", 0, other, r.fetch, {}, res)
    /\ UNCHANGED <<ev, it, hist>>

\* The Fd the caller holds: the one the last call on an ExecFds yielded, or
\* the one the last Fd accessor was called on.
HeldFd ==
    IF ret.op \in {"next", "nth", "last"} /\ ret.pre.kind = "fd" /\ ret.res.some
    THEN {ret.res.val}
    ELSE IF ret.op \in FdAccessors THEN {ret.res.self} ELSE {}

\* fd() / fdtype() / pipe_id() on an Fd yielded by fds().
CallFdAccessor ==
    \E self \in HeldFd : \E name \in FdAccessors :
        /\ ret' = Call(name, 0, NoIter, <<>>, {}, [self |-> self, val |-> FdAccessor(name, self)])
        /\ UNCHANGED <<ev, it, hist, other>>

\* arg(index) / env(index) / fd(index)
CallElement ==
    \E kind \in Kinds : \E index \in u32 :
        LET r == element(ev, kind, index)
        IN \E res \in Returned(kind, r.fetch) :
             /\ ret' = Call(kind, index, iter(ev, kind), r.fetch, {}, res)
             /\ UNCHANGED <<ev, it, hist, other>>

\* arg_count() / env_count() / fd_count()
CallElementCount ==
    \E kind \in Kinds :
        /\ ret' = Call("count_of", 0, iter(ev, kind), <<>>, {}, element_count(ev, kind))
        /\ UNCHANGED <<ev, it, hist, other>>

\* all_args(): the arguments, collected.
CallAllArgs ==
    LET fetch == all_args(ev)
    IN \E res \in Collected("arg", fetch) :
         /\ ret' = Call("all_args", 0, iter(ev, "arg"), fetch, {}, res)
         /\ UNCHANGED <<ev, it, hist, other>>

\* a == b and the hashes of both, for another EventExec b.
CallEq ==
    \E b \in OtherEvents(ev) :
        /\ ret' = Call("eq", 0, NoIter, <<>>, {},
                       [other |-> b,
                        eq |-> PartialEq_eq(ev, b),
                        hash |-> Hash_hash(ev),
                        hash_other |-> Hash_hash(b)])
        /\ UNCHANGED <<ev, it, hist, other>>

\* One of the version-gated accessors.
CallAccessor ==
    \E name \in Gated :
        LET r == Accessor(name, ev)
        IN /\ ret' = Call(name, 0, NoIter, <<>>, r.reads, r.res)
           /\ UNCHANGED <<ev, it, hist, other>>

\* The calls on an iterator the caller holds.
NextIter ==
    \/ CallIter
    \/ CallNext
    \/ CallNth
    \/ CallLast
    \/ CallCount
    \/ CallLen
    \/ CallSizeHint
    \/ CallFdAccessor

\* The calls on the record itself; each leaves the caller's iterator alone.
NextRecord ==
    \/ CallElement
    \/ CallElementCount
    \/ CallAllArgs
    \/ CallAccessor
    \/ CallEq

\* The calls on the second iterator.
NextOther ==
    \/ CallIterOther
    \/ CallNextOther
    \/ CallNthOther
    \/ CallLastOther

Next == NextIter \/ NextRecord \/ NextOther

Spec == Init /\ [][Next]_vars

\* The record's calls and the iterator's calls do not touch each other's state
\* (ev is never written; it and hist are written by the iterator's calls only),
\* so each family is checked in a specification of its own.
SpecIter == Init /\ [][NextIter]_vars
SpecRecord == Init /\ [][NextRecord]_vars

\* Two iterators over one record, their calls interleaved in any order.
NextPair ==
    \/ CallIter
    \/ CallNext
    \/ CallNth
    \/ CallLast
    \/ NextOther

\* The iterators read no version-gated field: the records are the version-1
\* records with an environment, two descriptors and any argument list.
InitPair == Init /\ ev.version = 1 /\ ev.raw.fds = <<VnodeFd, PipeFd>>

SpecPair == InitPair /\ [][NextPair]_vars

(* ------------------------------------------------------------------------ *)
(* Properties                                                                 *)
(* ------------------------------------------------------------------------ *)

IteratorOps == {"next", "nth", "last", "count", "len", "size_hint"}

\* The view of the element at a valid index of a counted field.
View(kind, index) == raw_to_wrapped(kind, Token(kind, Array(ev.raw, kind)[index + 1]))

\* C1: whatever sequence of next(), nth(n), last(), count(), len() and
\* size_hint() calls is made on an iterator, every index passed to the native
\* element function is strictly less than the count the iterator snapshotted
\* at construction (which is the native count of the record).
C1_FetchInBounds ==
    ret.op \in IteratorOps =>
        /\ ret.pre.count = es_exec_count(ev.raw, ret.pre.kind)
        /\ \A i \in 1..Len(ret.fetch) : ret.fetch[i] < ret.pre.count

\* A next() fetched the last valid index of a list of U32_MAX elements.
C1_Witness ==
    /\ ret.op = "next"
    /\ ret.pre.count = U32_MAX
    /\ ret.fetch = <<U32_MAX - 1>>

\* What a fresh iterator over a counted field yields, in order.
Yields(kind) == CHOOSE s \in Collected(kind, collect(iter(ev, kind))) : TRUE

\* C2: arg(i) / env(i) / fd(i) is the i-th element (zero-based) a fresh
\* iterator over the field yields when i is less than the field's count, and
\* absent otherwise.
C2_ElementIsIth ==
    ret.op \in Kinds =>
        IF ret.n < element_count(ev, ret.op)
        THEN /\ ret.n < Len(Yields(ret.op))
             /\ ret.res = Some(Yields(ret.op)[ret.n + 1])
        ELSE ret.res = None

\* arg(1) of a record whose arguments are /bin/ls -la /tmp.
C2_Witness ==
    /\ ret.op = "arg"
    /\ ret.n = 1
    /\ ev.raw.args = <<"/bin/ls", "-la", "/tmp">>
    /\ ret.res = Some("-la")

\* The version that introduces each gated field.
MinVersion(name) ==
    CASE name = "script" -> 2
      [] name = "cwd" -> 3
      [] name = "last_fd" -> 4
      [] name = "image_cputype" -> 6
      [] name = "image_cpusubtype" -> 6
      [] name = "dyld_exec_path" -> 7

\* C3: an accessor of a version-gated field, called on a message whose version
\* is below the field's minimum version, returns absent without reading the
\* field from the native record.
C3_GatedNotRead ==
    (ret.op \in Gated /\ ev.version < MinVersion(ret.op)) =>
        /\ ret.res = None
        /\ ret.reads = {}

\* cwd() on a version 2 message.
C3_Witness ==
    /\ ret.op = "cwd"
    /\ ev.version = 2
    /\ ret.res = None

\* C4 as stated: every gated accessor returns a present value whenever the
\* message version is at least the field's minimum version, whatever the
\* native record holds.
C4_PresentFromMinVersion ==
    (ret.op \in Gated /\ ev.version >= MinVersion(ret.op)) => ret.res.some

\* C4 amended: a gated accessor returns a present value exactly when the
\* message version is at least the field's minimum version and, for script(),
\* the record's script pointer is not null.
C4_PresentUnlessNullScript ==
    ret.op \in Gated =>
        (ret.res.some <=>
            /\ ev.version >= MinVersion(ret.op)
            /\ (ret.op = "script" => ev.raw.script # NULL))

\* script() on a version 2 message whose script pointer is null.
C4_Witness ==
    /\ ret.op = "script"
    /\ ev.version = 2
    /\ ev.raw.script = NULL
    /\ ret.res = None
    /\ ret.reads = {"script"}

\* C5 as stated: once a next() on an iterator has returned None, every later
\* next() on that iterator returns None (hist.done: an earlier next() on the
\* iterator held returned None, or this one did).
C5_DoneStaysDone ==
    (ret.op = "next" /\ hist.done) => ret.res = None

\* The first `k` views of a counted field, in order.
FirstViews(kind, k) == [i \in 1..k |-> View(kind, i - 1)]

\* C6: the next() calls on a fresh iterator yield the elements at indices
\* 0, 1, ... in order, each once, never more than count of them, and when a
\* next() has returned None exactly the count elements were yielded.
C6_NextYieldsInOrder ==
    (it # NoIter /\ hist.onlyNext) =>
        /\ Len(hist.yielded) <= it.count
        /\ hist.yielded = FirstViews(it.kind, Len(hist.yielded))
        /\ hist.done => Len(hist.yielded) = it.count

\* A fresh iterator over U32_MAX arguments was drained by next() alone.
C6_Witness ==
    /\ it # NoIter
    /\ hist.onlyNext
    /\ hist.done
    /\ it.count >= 3
    /\ Len(hist.yielded) = it.count

\* The iterator after `k` calls of next().
RECURSIVE Advance(_, _)
Advance(self, k) == IF k = 0 THEN self ELSE Advance(next(self).self, k - 1)

\* C7: on a fresh iterator nth(n) returns None when n >= count, and otherwise
\* what the (n+1)-th next() on a fresh iterator over the same record returns.
C7_NthOnFresh ==
    (ret.op = "nth" /\ ret.pre = iter(ev, ret.pre.kind)) =>
        IF ret.n >= ret.pre.count
        THEN ret.res = None
        ELSE ret.res \in
               Returned(ret.pre.kind, next(Advance(iter(ev, ret.pre.kind), ret.n)).fetch)

\* nth(2) on a fresh iterator returned the third element.
C7_Witness ==
    /\ ret.op = "nth"
    /\ ret.pre = iter(ev, ret.pre.kind)
    /\ ret.n = 2
    /\ ret.pre.count > 2
    /\ ret.res = Some(View(ret.pre.kind, 2))

\* C8 as stated: in any state of the iterator, nth(n) returns the same result
\* and leaves the same remaining length as n calls of next() followed by one
\* more.
C8_NthIsRepeatedNext ==
    ret.op = "nth" =>
        LET ref == next(Advance(ret.pre, ret.n))
        IN /\ ret.res \in Returned(ret.pre.kind, ref.fetch)
           /\ len(it) = len(ref.self)

\* C9: last() returns None on an iterator over an empty sequence, and the
\* element at index count - 1 on an iterator over a non-empty one.
C9_LastIsFinalElement ==
    ret.op = "last" =>
        IF ret.pre.count = 0
        THEN ret.res = None
        ELSE ret.res = Some(View(ret.pre.kind, ret.pre.count - 1))

\* last() on a fresh iterator over at least two elements.
C9_Witness ==
    /\ ret.op = "last"
    /\ ret.pre.count >= 2
    /\ ret.pre.current = 0
    /\ ret.res = Some(View(ret.pre.kind, ret.pre.count - 1))

\* The number of elements the next() calls on an iterator yield before the
\* first None.
Remaining(self) == Len(collect(self))

\* C10: in every state of an iterator len() is count - current, or zero when
\* the cursor is at or past count; size_hint() is (len, Some(len)); and len is
\* exactly the number of elements the following next() calls yield before
\* the first None.
C10_LenIsExact ==
    /\ it # NoIter =>
          /\ len(it) = IF it.current >= it.count THEN 0 ELSE it.count - it.current
          /\ size_hint(it) = <<len(it), Some(len(it))>>
          /\ len(it) = Remaining(it)
    /\ ret.op = "len" => ret.res = Remaining(ret.pre)
    /\ ret.op = "size_hint" => ret.res = <<Remaining(ret.pre), Some(Remaining(ret.pre))>>

\* size_hint() on an iterator whose cursor nth() moved past the count.
C10_Witness ==
    /\ ret.op = "size_hint"
    /\ ret.pre.current > ret.pre.count
    /\ ret.pre.count > 0
    /\ ret.res = <<0, Some(0)>>

\* C11 as stated: count() returns the snapshotted count minus the number of
\* elements the next() and nth() calls made before it on the iterator have
\* yielded or skipped, and never less than zero.
C11_CountIsUnconsumed ==
    [][ret'.op = "count" => ret'.res = it.count - hist.consumed]_vars

\* C12: for every Fd yielded by fds(), pipe_id() is present exactly when
\* fdtype() is the pipe type code, and it is then the pipe's id; for any other
\* type code it is absent, whatever the union holds.
C12_PipeIdIffPipe ==
    ret.op = "Fd::pipe_id" =>
        IF Fd_fdtype(ret.res.self) = PROX_FDTYPE_PIPE
        THEN ret.res.val = Some(ret.res.self.raw.pipe_id)
        ELSE ret.res.val = None

\* pipe_id() on a descriptor that is no pipe and whose union reads as zero.
C12_Witness ==
    /\ ret.op = "Fd::pipe_id"
    /\ ret.res.self.raw.fdtype # PROX_FDTYPE_PIPE
    /\ ret.res.self.raw.pipe_id = 0
    /\ ret.res.val = None

\* What a caller can observe of an Fd.
FdObserved(self) == <<Fd_fd(self), Fd_fdtype(self), Fd_pipe_id(self)>>

\* What a fresh iterator over a counted field of a record yields, in order.
YieldsOf(e, kind) ==
    LET fetch == collect(iter(e, kind))
    IN [i \in 1..Len(fetch) |->
          LET view == raw_to_wrapped(kind, Token(kind, Array(e.raw, kind)[fetch[i] + 1]))
          IN IF kind = "fd" THEN FdObserved(view) ELSE view]

\* Everything the public accessors of an EventExec show.
Observable(e) ==
    [version |-> e.version,
     target |-> target(e),
     gated |-> [name \in Gated |-> Accessor(name, e).res],
     counts |-> [kind \in Kinds |-> element_count(e, kind)],
     elements |-> [kind \in Kinds |-> YieldsOf(e, kind)]]

\* C13 as stated: two EventExec compare equal exactly when every observable
\* field agrees: the version and what every public accessor returns, with
\* dyld_exec_path(), every element of envs() and every element of fds().
C13_EqIffObservablyEqual ==
    ret.op = "eq" =>
        (ret.res.eq <=> Observable(ev) = Observable(ret.res.other))

\* Two records hold the same logical data: the version, the target, the
\* lists, and every field the version carries.
LogicallyIdentical(a, b) ==
    /\ a.version = b.version
    /\ a.raw.target = b.raw.target
    /\ \A kind \in Kinds : Array(a.raw, kind) = Array(b.raw, kind)
    /\ a.version >= 2 => a.raw.script = b.raw.script
    /\ a.version >= 3 => a.raw.cwd = b.raw.cwd
    /\ a.version >= 4 => a.raw.last_fd = b.raw.last_fd
    /\ a.version >= 6 => a.raw.image_cputype = b.raw.image_cputype
    /\ a.version >= 6 => a.raw.image_cpusubtype = b.raw.image_cpusubtype
    /\ a.version >= 7 => a.raw.dyld_exec_path = b.raw.dyld_exec_path

\* C14: two EventExec built from logically identical data, in whatever native
\* memory, compare equal and hash identically; equality is reflexive and
\* symmetric.
C14_IdenticalDataEqual ==
    ret.op = "eq" =>
        /\ LogicallyIdentical(ev, ret.res.other) =>
              /\ ret.res.eq
              /\ ret.res.hash = ret.res.hash_other
        /\ PartialEq_eq(ev, ev)
        /\ PartialEq_eq(ret.res.other, ret.res.other)
        /\ ret.res.eq = PartialEq_eq(ret.res.other, ev)

\* A record compared with the same data held in a buffer of other bytes.
C14_Witness ==
    /\ ret.op = "eq"
    /\ ret.res.other.raw # ev.raw
    /\ LogicallyIdentical(ev, ret.res.other)
    /\ ret.res.eq
    /\ ret.res.hash = ret.res.hash_other

\* What a call on an iterator that nothing else touches does: the iterator
\* afterwards and the value returned.
Alone(op, n, self) ==
    LET r == CASE op = "next" -> next(self)
               [] op = "nth" -> nth(self, n)
               [] op = "last" -> last(self)
    IN [self |-> r.self,
        res |-> IF r.fetch = <<>> THEN None ELSE Some(View(self.kind, r.fetch[1]))]

\* C15: each args() / envs() / fds() call returns an iterator with cursor 0
\* and the record's count; no iterator call changes the record or the other
\* iterator; and with the calls on two iterators over one record interleaved
\* in any order, each call returns what it returns on its own iterator alone.
C15_FreshAndIndependent ==
    [][/\ ev' = ev
       /\ ret'.op = "iter" =>
             /\ it' = [kind |-> it'.kind, current |-> 0,
                       count |-> es_exec_count(ev.raw, it'.kind)]
             /\ other' = other
       /\ ret'.op = "other.iter" =>
             /\ other' = [kind |-> other'.kind, current |-> 0,
                          count |-> es_exec_count(ev.raw, other'.kind)]
             /\ it' = it
       /\ ret'.op \in {"next", "nth", "last"} =>
             /\ other' = other
             /\ ret'.pre = it
             /\ ret'.res = Alone(ret'.op, ret'.n, it).res
             /\ ret'.op # "last" => it' = Alone(ret'.op, ret'.n, it).self
       /\ ret'.op \in {"other.next", "other.nth", "other.last"} =>
             LET op == CASE ret'.op = "other.next" -> "next"
                         [] ret'.op = "other.nth" -> "nth"
                         [] ret'.op = "other.last" -> "last"
             IN /\ it' = it
                /\ hist' = hist
                /\ ret'.pre = other
                /\ ret'.res = Alone(op, ret'.n, other).res
                /\ op # "last" => other' = Alone(op, ret'.n, other).self
      ]_vars

\* With the second iterator over the same list two elements in, the first
\* next() on the other iterator yields element 0.
C15_Witness ==
    /\ ret.op = "next"
    /\ other.kind = it.kind
    /\ other.current = 2
    /\ ret.pre.current = 0
    /\ it.current = 1
    /\ ret.res = Some(View(it.kind, 0))

\* C16: across the next(), nth(n), last() and count() calls on one iterator
\* the cursor never decreases and the count stays the count snapshotted at
\* construction.
C16_CursorMonotone ==
    /\ it # NoIter => it.count = es_exec_count(ev.raw, it.kind)
    /\ ret.op \in {"next", "nth"} =>
          /\ it.current >= ret.pre.current
          /\ it.count = ret.pre.count
    /\ ret.op = "last" =>
          /\ last(ret.pre).self.current >= ret.pre.current
          /\ last(ret.pre).self.count = ret.pre.count
    /\ ret.op = "count" =>
          /\ count(ret.pre).self.current >= ret.pre.current
          /\ count(ret.pre).self.count = ret.pre.count

\* C17: the cursor stays in the 32-bit domain and never wraps: next() moves
\* it up by one, saturating, when it yields and leaves it otherwise; nth(n)
\* with n above the largest u32 leaves it at the largest u32 and returns None,
\* and with a smaller n leaves it at n or n + 1, whatever the count.
C17_CursorNeverWraps ==
    /\ it.current \in u32
    /\ ret.op = "next" =>
          it.current = IF ret.res.some
                       THEN min(ret.pre.current + 1, U32_MAX)
                       ELSE ret.pre.current
    /\ ret.op = "nth" =>
          IF ret.n > U32_MAX
          THEN it.current = U32_MAX /\ ret.res = None
          ELSE it.current = IF ret.res.some THEN min(ret.n + 1, U32_MAX) ELSE ret.n

\* nth(n) with n above the largest u32 on an iterator over the largest count.
C17_Witness ==
    /\ ret.op = "nth"
    /\ ret.n > U32_MAX
    /\ ret.pre.count = U32_MAX
    /\ it.current = U32_MAX
    /\ ret.res = None

\* C18: count(), len() and size_hint() never call the native element
\* function; next(), nth(n) and last() call it once when they return an
\* element and not at all when they return None.
C18_FetchAtMostOnce ==
    /\ ret.op \in {"count", "len", "size_hint"} => ret.fetch = <<>>
    /\ ret.op \in {"next", "nth", "last"} =>
          Len(ret.fetch) = IF ret.res.some THEN 1 ELSE 0

\* nth(n) that skips at least two elements fetches only the one it returns.
C18_Witness ==
    /\ ret.op = "nth"
    /\ ret.n >= 2
    /\ ret.res.some
    /\ ret.fetch = <<ret.n>>

\* C19: in every state of an iterator last() returns what draining it with
\* next() yields last, or None when draining yields nothing.
C19_LastIsDrain ==
    ret.op = "last" =>
        LET f == collect(ret.pre)
        IN ret.res = IF f = <<>> THEN None
                     ELSE Some(View(ret.pre.kind, f[Len(f)]))

====
